---- MODULE Spec2Model ----
(***************************************************************************)
(* The keyword trie of miscco/keywordTrie (an Aho-Corasick automaton):     *)
(* keyword_trie<CaseSensitive> of keywordTrie.hpp, with the run-time       *)
(* setCaseSensitivity of the earlier basic_trie.  Nodes are addressed by   *)
(* their index in trieNodes (1-based here), root is the first node.        *)
(***************************************************************************)
EXTENDS Integers, Sequences, FiniteSets, TLC

\* ---- bounds of the model ------------------------------------------------
MaxKeyLen == 3
MaxKeywords == 2
MaxTextLen == 3
MaxBatch == 3
MaxBatchKeyLen == 1
NumThreads == 2
MaxLongKeyLen == 4
MaxLongTextLen == 7
MaxScanKeyLen == 2
MaxExampleTextLen == 2
MaxBuildKeyLen == 3
MaxBuildList == 2
MaxBuildTextLen == 5
MaxScanTextLen == 2

\* ---- symbols ------------------------------------------------------------
Chars == {"a", "A"}

\* '\0', the label of the root's (non-existent) incoming edge
NUL == "\\0"

\* std::tolower on the symbols of the model
tolower(c) == IF c = "A" THEN "a" ELSE c

\* the value of a symbol as unsigned char (the order of std::string)
charCode(c) ==
    CASE c = "A" -> 65 [] c = "a" -> 97 [] c = "e" -> 101 [] c = "h" -> 104
      [] c = "i" -> 105 [] c = "r" -> 114 [] c = "s" -> 115 [] c = "u" -> 117
      [] OTHER -> 0

SeqsUpTo(S, n) == UNION {[1..k -> S] : k \in 0..n}

Keys == SeqsUpTo(Chars, MaxKeyLen)
BatchKeys == SeqsUpTo(Chars, MaxBatchKeyLen)
Texts == SeqsUpTo(Chars, MaxTextLen)
LongKeys == SeqsUpTo(Chars, MaxLongKeyLen)
LongTexts == SeqsUpTo(Chars, MaxLongTextLen)

\* the example of the README: the keywords in the order of their insertion,
\* the text, and the symbols of both
ExampleKeys == << <<"h", "e", "r", "s">>, <<"h", "i", "s">>, <<"s", "h", "e">>,
                 <<"h", "e">>, <<"h", "e", "r">> >>
ExampleText == <<"u", "s", "h", "e", "r", "s">>
ExampleChars == {"u", "s", "h", "e", "r", "i"}
ExampleTexts == {ExampleText} \cup SeqsUpTo(ExampleChars, MaxExampleTextLen)

BuildLists == SeqsUpTo(SeqsUpTo(Chars, MaxBuildKeyLen), MaxBuildList)
BuildTexts == SeqsUpTo(Chars, MaxBuildTextLen)
ScanKeys == SeqsUpTo(Chars, MaxScanKeyLen)
ScanTexts == SeqsUpTo(Chars, MaxScanTextLen)

VARIABLES
    CaseSensitive,  \* the template parameter / the caseSensitive flag
    trieNodes,      \* the arena of nodes
    keywords,       \* the Result stubs, in insertion order
    last,           \* the last call of the public interface and its outcome
    inserted,       \* history: keys of the successful insertions, in order
    finalized,      \* history: no insertion since the last run of addFailureLinks
    scans           \* the calls of parseText in flight, one per thread

vars == <<CaseSensitive, trieNodes, keywords, last, inserted, finalized, scans>>

root == 1

\* mutant of RootNode: the root carries the id 0
RootNodeIdZero == [id |-> 0, depth |-> 0, c |-> NUL, parent |-> root,
                   failure |-> root, output |-> root, children |-> <<>>]

\* Node() : id = -1, depth = 0, c = '\0'; the constructor of the trie sets
\* parent = failure = output = root
RootNode == [id |-> -1, depth |-> 0, c |-> NUL, parent |-> root,
             failure |-> root, output |-> root, children |-> <<>>]

\* mutant of NewNode: the links of a new node start at its parent
NewNodeLinkedToParent(d, character, par) ==
    [id |-> -1, depth |-> d, c |-> character, parent |-> par,
     failure |-> par, output |-> par, children |-> <<>>]

\* Node(d, character, par, root)
NewNode(d, character, par) ==
    [id |-> -1, depth |-> d, c |-> character, parent |-> par,
     failure |-> root, output |-> root, children |-> <<>>]

\* mutant of FoldChar: the symbol is never folded
FoldCharNever(cs, character) == character

\* the symbol looked up or stored: CaseSensitive ? character : std::tolower(character)
FoldChar(cs, character) == IF cs THEN character ELSE tolower(character)

FoldString(cs, s) == [i \in 1..Len(s) |-> FoldChar(cs, s[i])]

\* mutant of FirstChild: only children.front() is compared
FirstChildFrontOnly(ns, children, character) ==
    IF children = <<>> THEN 0
    ELSE IF ns[Head(children)].c = character THEN Head(children)
    ELSE 0

\* for (Node *child : children) if (child->c == character) return child;
\* 0 when the loop ends without a return
RECURSIVE FirstChild(_, _, _)
FirstChild(ns, children, character) ==
    IF children = <<>> THEN 0
    ELSE IF ns[Head(children)].c = character THEN Head(children)
    ELSE FirstChild(ns, Tail(children), character)

\* mutant of addChild: a node is created without looking for the child
addChildAlways(ns, current, character) ==
    [nodes |-> [Append(ns, NewNode(ns[current].depth + 1, character, current))
                   EXCEPT ![current].children = Append(@, Len(ns) + 1)],
     node |-> Len(ns) + 1]

\* keyword_trie::addChild
addChild(ns, current, character) ==
    LET hit == FirstChild(ns, ns[current].children, character)
        fresh == Len(ns) + 1
    IN  IF hit # 0 THEN [nodes |-> ns, node |-> hit]
        ELSE [nodes |-> [Append(ns, NewNode(ns[current].depth + 1, character, current))
                            EXCEPT ![current].children = Append(@, fresh)],
              node |-> fresh]

\* mutant of addPath: current is not advanced to the node of the last symbol
RECURSIVE addPathParent(_, _, _, _)
addPathParent(cs, ns, current, key) ==
    IF key = <<>> THEN [nodes |-> ns, node |-> current]
    ELSE LET r == addChild(ns, current, FoldChar(cs, Head(key)))
         IN  IF Tail(key) = <<>> THEN [nodes |-> r.nodes, node |-> current]
             ELSE addPathParent(cs, r.nodes, r.node, Tail(key))

\* the loop of addString over the characters of key
RECURSIVE addPath(_, _, _, _)
addPath(cs, ns, current, key) ==
    IF key = <<>> THEN [nodes |-> ns, node |-> current]
    ELSE LET r == addChild(ns, current, FoldChar(cs, Head(key)))
         IN  addPath(cs, r.nodes, r.node, Tail(key))

\* mutant of LastChild: the symbol of the child is not compared
RECURSIVE LastChildAnySymbol(_, _, _, _)
LastChildAnySymbol(ns, children, character, found) ==
    IF children = <<>> THEN found
    ELSE LastChildAnySymbol(ns, Tail(children), character, Head(children))

\* for (failchild : children) if (failchild->c == c) failure = failchild;
\* (no break: the last matching child is kept)
RECURSIVE LastChild(_, _, _, _)
LastChild(ns, children, character, found) ==
    IF children = <<>> THEN found
    ELSE LastChild(ns, Tail(children), character,
                   IF ns[Head(children)].c = character THEN Head(children) ELSE found)

\* mutant of NewFailure: without a matching child the link falls back to the root
NewFailureResetsToRoot(ns, temp) ==
    IF ns[ns[temp].failure].depth < ns[temp].depth - 1
    THEN LastChild(ns, ns[ns[ns[temp].parent].failure].children, ns[temp].c, root)
    ELSE ns[temp].failure

\* mutant of NewFailure: the child is compared with the symbol of the parent
NewFailureParentSymbol(ns, temp) ==
    IF ns[ns[temp].failure].depth < ns[temp].depth - 1
    THEN LastChild(ns, ns[ns[ns[temp].parent].failure].children,
                   ns[ns[temp].parent].c, ns[temp].failure)
    ELSE ns[temp].failure

\* mutant of NewFailure: the child is looked for among the children of temp
NewFailureAmongOwnChildren(ns, temp) ==
    IF ns[ns[temp].failure].depth < ns[temp].depth - 1
    THEN LastChild(ns, ns[temp].children, ns[temp].c, ns[temp].failure)
    ELSE ns[temp].failure

\* the failure link of temp after its visit by addFailureLinks
NewFailure(ns, temp) ==
    IF ns[ns[temp].failure].depth < ns[temp].depth - 1
    THEN LastChild(ns, ns[ns[ns[temp].parent].failure].children, ns[temp].c,
                   ns[temp].failure)
    ELSE ns[temp].failure

\* mutant of OutputWalk: the test of the id is inverted, the walk stops at the
\* first node without an id
RECURSIVE OutputWalkInverted(_, _)
OutputWalkInverted(ns, out) ==
    IF out = root THEN out
    ELSE IF ns[out].id = -1 THEN out
    ELSE OutputWalkInverted(ns, ns[out].failure)

\* mutant of OutputWalk: the output link is the failure link, whether or not
\* that node ends a keyword
OutputWalkNoIdTest(ns, out) == out

\* while (out != root) { if (out->id != -1) break; out = out->failure; }
RECURSIVE OutputWalk(_, _)
OutputWalk(ns, out) ==
    IF out = root THEN out
    ELSE IF ns[out].id # -1 THEN out
    ELSE OutputWalk(ns, ns[out].failure)

\* mutant of VisitNode: the output link is computed before the failure link
VisitNodeOutputFirst(ns, temp) ==
    LET ns1 == [ns EXCEPT ![temp].output = OutputWalk(ns, ns[temp].failure)]
    IN  [ns1 EXCEPT ![temp].failure = NewFailure(ns, temp)]

\* one iteration of the while loop of addFailureLinks, on the node temp
VisitNode(ns, temp) ==
    LET ns1 == [ns EXCEPT ![temp].failure = NewFailure(ns, temp)]
    IN  [ns1 EXCEPT ![temp].output = OutputWalk(ns1, ns1[temp].failure)]

\* mutant of BfsOrder: the children are pushed twice
RECURSIVE BfsOrderPushTwice(_, _)
BfsOrderPushTwice(ns, q) ==
    IF q = <<>> THEN <<>>
    ELSE <<Head(q)>> \o BfsOrderPushTwice(ns, Tail(q) \o ns[Head(q)].children
                                                     \o ns[Head(q)].children)

\* the order in which the while loop of addFailureLinks takes the nodes from
\* the queue q: the front is visited, its children are pushed at the back
RECURSIVE BfsOrder(_, _)
BfsOrder(ns, q) ==
    IF q = <<>> THEN <<>>
    ELSE <<Head(q)>> \o BfsOrder(ns, Tail(q) \o ns[Head(q)].children)

\* the visits of addFailureLinks on the nodes of order, one after the other
RECURSIVE VisitAll(_, _)
VisitAll(ns, order) ==
    IF order = <<>> THEN ns ELSE VisitAll(VisitNode(ns, Head(order)), Tail(order))

\* mutant of LinkLoop: the nodes are visited deepest first, the root last
LinkLoopReversed(ns, q) ==
    LET order == BfsOrder(ns, q)
    IN  VisitAll(ns, [j \in 1..Len(order) |-> order[Len(order) - j + 1]])

\* the while loop of addFailureLinks on the queue q
RECURSIVE LinkLoop(_, _)
LinkLoop(ns, q) ==
    IF q = <<>> THEN ns
    ELSE LET temp == Head(q)
         IN  LinkLoop(VisitNode(ns, temp), Tail(q) \o ns[temp].children)

\* keyword_trie::addFailureLinks
addFailureLinks(ns) == LinkLoop(ns, <<root>>)

\* the record of a call of addString in the trace of a public call
CallEvent(key, addFailure) == [ev |-> "addString", key |-> key, addFailure |-> addFailure]

\* the record of a run of addFailureLinks in the trace of a public call
LinkEvent == [ev |-> "addFailureLinks", key |-> <<>>, addFailure |-> FALSE]

\* mutant of NextId: the size is read after emplace_back
NextIdAfter(kws) == Len(kws) + 1

\* the identifier of a new keyword: keywords.size() before emplace_back
NextId(kws) == Len(kws)

\* mutant of addString: the empty key does not return before the link pass
addStringEmptyRelink(cs, ns, kws, key, addFailure) ==
    LET r == IF key = <<>> THEN [nodes |-> ns, node |-> root]
             ELSE addPath(cs, ns, root, key)
        current == r.node
    IN  IF key # <<>> /\ r.nodes[current].id # -1
        THEN [nodes |-> r.nodes, keywords |-> kws, threw |-> TRUE,
              trace |-> <<CallEvent(key, addFailure)>>]
        ELSE LET ns1 == IF key = <<>> THEN ns
                        ELSE [r.nodes EXCEPT ![current].id = NextId(kws)]
                 kws1 == IF key = <<>> THEN kws
                         ELSE Append(kws, [keyword |-> key, id |-> Len(kws)])
             IN  IF addFailure
                 THEN [nodes |-> addFailureLinks(ns1), keywords |-> kws1,
                       threw |-> FALSE,
                       trace |-> <<CallEvent(key, addFailure), LinkEvent>>]
                 ELSE [nodes |-> ns1, keywords |-> kws1, threw |-> FALSE,
                       trace |-> <<CallEvent(key, addFailure)>>]

\* keyword_trie::addString(key, addFailure): the automaton after the call,
\* whether it threw, and the calls it made (trace)
addString(cs, ns, kws, key, addFailure) ==
    IF key = <<>>
    THEN [nodes |-> ns, keywords |-> kws, threw |-> FALSE,
          trace |-> <<CallEvent(key, addFailure)>>]
    ELSE LET r == addPath(cs, ns, root, key)
             current == r.node
         IN  IF r.nodes[current].id # -1
             THEN [nodes |-> r.nodes, keywords |-> kws, threw |-> TRUE,
                   trace |-> <<CallEvent(key, addFailure)>>]
             ELSE LET ns1 == [r.nodes EXCEPT ![current].id = NextId(kws)]
                      kws1 == Append(kws, [keyword |-> key, id |-> Len(kws)])
                  IN  IF addFailure
                      THEN [nodes |-> addFailureLinks(ns1), keywords |-> kws1,
                            threw |-> FALSE,
                            trace |-> <<CallEvent(key, addFailure), LinkEvent>>]
                      ELSE [nodes |-> ns1, keywords |-> kws1, threw |-> FALSE,
                            trace |-> <<CallEvent(key, addFailure)>>]

\* mutant of BatchAddFailure: every item of a batch runs the link pass
BatchAddFailureTrue == TRUE

\* the addFailure argument of the calls made by the batch overloads
BatchAddFailure == FALSE

\* the for loop of addString(keyList): addString(key, false) on every key,
\* left by the exception of a duplicate
RECURSIVE addEach(_, _, _, _, _)
addEach(cs, ns, kws, keyList, trace) ==
    IF keyList = <<>>
    THEN [nodes |-> ns, keywords |-> kws, threw |-> FALSE, trace |-> trace]
    ELSE LET r == addString(cs, ns, kws, Head(keyList), BatchAddFailure)
         IN  IF r.threw
             THEN [nodes |-> r.nodes, keywords |-> r.keywords, threw |-> TRUE,
                   trace |-> trace \o r.trace]
             ELSE addEach(cs, r.nodes, r.keywords, Tail(keyList), trace \o r.trace)

\* mutant of addStringVector: the link pass also runs when the loop was left
\* by the exception
addStringVectorRelink(cs, ns, kws, keyList) ==
    LET r == addEach(cs, ns, kws, keyList, <<>>)
    IN  [nodes |-> addFailureLinks(r.nodes), keywords |-> r.keywords,
         threw |-> r.threw, trace |-> Append(r.trace, LinkEvent)]

\* keyword_trie::addString(const std::vector<std::string> &keyList)
addStringVector(cs, ns, kws, keyList) ==
    LET r == addEach(cs, ns, kws, keyList, <<>>)
    IN  IF r.threw THEN r
        ELSE [nodes |-> addFailureLinks(r.nodes), keywords |-> r.keywords,
              threw |-> FALSE, trace |-> Append(r.trace, LinkEvent)]

\* the keys of keyList inserted one at a time with addString(key), each call
\* running the link pass (addFailure = true), until one throws
RECURSIVE addOneByOne(_, _, _, _)
addOneByOne(cs, ns, kws, keyList) ==
    IF keyList = <<>> THEN [nodes |-> ns, keywords |-> kws, threw |-> FALSE]
    ELSE LET r == addString(cs, ns, kws, Head(keyList), TRUE)
         IN  IF r.threw THEN [nodes |-> r.nodes, keywords |-> r.keywords, threw |-> TRUE]
             ELSE addOneByOne(cs, r.nodes, r.keywords, Tail(keyList))

\* operator< of std::string: lexicographic on the unsigned char values
RECURSIVE StringLess(_, _)
StringLess(s, t) ==
    IF t = <<>> THEN FALSE
    ELSE IF s = <<>> THEN TRUE
    ELSE IF charCode(Head(s)) # charCode(Head(t)) THEN charCode(Head(s)) < charCode(Head(t))
    ELSE StringLess(Tail(s), Tail(t))

\* the iteration order of a std::set<std::string>
RECURSIVE SetOrder(_)
SetOrder(S) ==
    IF S = {} THEN <<>>
    ELSE LET m == CHOOSE x \in S : \A y \in S \ {x} : StringLess(x, y)
         IN  <<m>> \o SetOrder(S \ {m})

\* keyword_trie::addString(const std::set<std::string> &keyList)
addStringSet(cs, ns, kws, keySet) ==
    LET r == addEach(cs, ns, kws, SetOrder(keySet), <<>>)
    IN  IF r.threw THEN r
        ELSE [nodes |-> addFailureLinks(r.nodes), keywords |-> r.keywords,
              threw |-> FALSE, trace |-> Append(r.trace, LinkEvent)]

\* mutant of traverseLoop: the children of the root are not searched
RECURSIVE traverseLoopNoRootChildren(_, _, _)
traverseLoopNoRootChildren(ns, temp, character) ==
    IF temp # root
    THEN LET hit == FirstChild(ns, ns[temp].children, character)
         IN  IF hit # 0 THEN hit
             ELSE traverseLoopNoRootChildren(ns, ns[temp].failure, character)
    ELSE root

\* keyword_trie::traverseFail, from temp = current->failure on
RECURSIVE traverseLoop(_, _, _)
traverseLoop(ns, temp, character) ==
    IF temp # root
    THEN LET hit == FirstChild(ns, ns[temp].children, character)
         IN  IF hit # 0 THEN hit ELSE traverseLoop(ns, ns[temp].failure, character)
    ELSE LET hit == FirstChild(ns, ns[root].children, character)
         IN  IF hit # 0 THEN hit ELSE root

\* keyword_trie::traverseFail
traverseFail(ns, current, character) == traverseLoop(ns, ns[current].failure, character)

\* mutant of findChild: a missing child is looked up at the root only, the
\* failure links are not followed
findChildNoFailure(ns, current, character) ==
    LET hit == FirstChild(ns, ns[current].children, character)
        atRoot == FirstChild(ns, ns[root].children, character)
    IN  IF hit # 0 THEN hit ELSE IF atRoot # 0 THEN atRoot ELSE root

\* keyword_trie::findChild
findChild(ns, current, character) ==
    LET hit == FirstChild(ns, ns[current].children, character)
    IN  IF hit # 0 THEN hit ELSE traverseFail(ns, current, character)

\* mutant of MakeResult: start is one too large (endPos - size + 2)
MakeResultPlusTwo(res, endPos) ==
    [keyword |-> res.keyword, id |-> res.id,
     start |-> endPos - Len(res.keyword) + 2, end |-> endPos]

\* Result(res, endPos): start = endPos - keyword.size() + 1 in std::size_t; a
\* negative value here is the wrapped-around one of the code
MakeResult(res, endPos) ==
    [keyword |-> res.keyword, id |-> res.id,
     start |-> endPos - Len(res.keyword) + 1, end |-> endPos]

\* keywords.at(id) throws std::out_of_range unless 0 <= id < keywords.size()
InRange(kws, id) == id \in 0..(Len(kws) - 1)

\* Results.emplace_back(keywords.at(id), i), or the exception of at()
emplace(kws, id, i, acc) ==
    IF InRange(kws, id)
    THEN [acc EXCEPT !.Results = Append(@, MakeResult(kws[id + 1], i))]
    ELSE [acc EXCEPT !.threw = TRUE]

\* while (temp != root) { Results.emplace_back(keywords.at(temp->id), i); temp = temp->output; }
RECURSIVE outputLoop(_, _, _, _, _)
outputLoop(ns, kws, temp, i, acc) ==
    IF temp = root \/ acc.threw THEN acc
    ELSE outputLoop(ns, kws, ns[temp].output, i, emplace(kws, ns[temp].id, i, acc))

\* if (current->id != -1) Results.emplace_back(keywords.at(current->id), i);
directMatch(ns, kws, current, i, acc) ==
    IF ns[current].id # -1 THEN emplace(kws, ns[current].id, i, acc) ELSE acc

\* mutant of parseStep: the output chain is emitted before the direct match
parseStepOutputFirst(ns, kws, current, i, acc) ==
    directMatch(ns, kws, current, i,
                outputLoop(ns, kws, ns[current].output, i,
                           [acc EXCEPT !.states = Append(@, current)]))

\* the body of the for loop of parseText at position i (0-based) once current
\* is the state found by findChild: the records so far, and the states
parseStep(ns, kws, current, i, acc) ==
    outputLoop(ns, kws, ns[current].output, i,
               directMatch(ns, kws, current, i, [acc EXCEPT !.states = Append(@, current)]))

\* the for loop of parseText from position i on, entered in state current
RECURSIVE parseLoop(_, _, _, _, _, _, _)
parseLoop(cs, ns, kws, text, i, current, acc) ==
    IF i >= Len(text) \/ acc.threw THEN acc
    ELSE parseLoop(cs, ns, kws, text, i + 1,
                   findChild(ns, current, FoldChar(cs, text[i + 1])),
                   parseStep(ns, kws, findChild(ns, current, FoldChar(cs, text[i + 1])), i, acc))

\* mutant of parseText: no test of text.empty(), the first symbol is read with
\* text.at(0) before the loop
parseTextNoEmptyTest(cs, ns, kws, text) ==
    IF text = <<>> THEN [Results |-> <<>>, threw |-> TRUE, states |-> <<>>]
    ELSE parseLoop(cs, ns, kws, text, 0, root,
                   [Results |-> <<>>, threw |-> FALSE, states |-> <<>>])

\* keyword_trie::parseText: the records returned (Results), whether a lookup
\* threw, and the state reached after each symbol (states)
parseText(cs, ns, kws, text) ==
    IF text = <<>> THEN [Results |-> <<>>, threw |-> FALSE, states |-> <<>>]
    ELSE parseLoop(cs, ns, kws, text, 0, root,
                   [Results |-> <<>>, threw |-> FALSE, states |-> <<>>])

\* basic_trie::setCaseSensitivity: the flag is assigned before the test
setCaseSensitivity(kws, flag) ==
    [caseSensitive |-> flag, threw |-> (~flag /\ kws # <<>>)]

\* ---- the state machine ---------------------------------------------------

NoCall == [op |-> "none", key |-> <<>>, keyList |-> <<>>, addFailure |-> FALSE,
           flag |-> FALSE, text |-> <<>>, threw |-> FALSE, trace |-> <<>>,
           Results |-> <<>>, states |-> <<>>]

\* the keys of the calls of addString in a trace that returned normally with a
\* non-empty key: every such call but the one that threw
RECURSIVE Successes(_, _)
Successes(trace, threw) ==
    IF trace = <<>> THEN <<>>
    ELSE LET e == Head(trace)
             rest == Successes(Tail(trace), threw)
         IN  IF e.ev = "addString" /\ e.key # <<>>
                /\ ~(threw /\ \A j \in 2..Len(trace) : trace[j].ev # "addString")
             THEN <<e.key>> \o rest
             ELSE rest

\* whether the links are those of a pass run after the last insertion: a call
\* that ends with addFailureLinks finalizes, one that inserted without it does not
Finalized(before, trace, threw) ==
    IF trace # <<>> /\ trace[Len(trace)].ev = "addFailureLinks" THEN TRUE
    ELSE IF Successes(trace, threw) # <<>> THEN FALSE
    ELSE before

\* the threads that call parseText
Threads == 1..NumThreads

\* a thread that is not inside parseText
IdleScan == [pc |-> "idle", text |-> <<>>, i |-> 0, current |-> root,
             Results |-> <<>>, threw |-> FALSE, states |-> <<>>]

\* keyword_trie(): only the root
Init ==
    /\ CaseSensitive \in BOOLEAN
    /\ trieNodes = <<RootNode>>
    /\ keywords = <<>>
    /\ last = NoCall
    /\ inserted = <<>>
    /\ finalized = TRUE
    /\ scans = [t \in Threads |-> IdleScan]

\* a call addString(key, addFailure) on an automaton of fewer than limit keywords
AddStringUpTo(limit, key, addFailure) ==
    /\ Len(keywords) < limit
    /\ LET r == addString(CaseSensitive, trieNodes, keywords, key, addFailure)
       IN  /\ trieNodes' = r.nodes
           /\ keywords' = r.keywords
           /\ last' = [NoCall EXCEPT !.op = "addString", !.key = key,
                                     !.addFailure = addFailure,
                                     !.threw = r.threw, !.trace = r.trace]
           /\ inserted' = inserted \o Successes(r.trace, r.threw)
           /\ finalized' = Finalized(finalized, r.trace, r.threw)
    /\ UNCHANGED <<CaseSensitive, scans>>

\* a call addString(key, addFailure)
AddString(key, addFailure) == AddStringUpTo(MaxKeywords, key, addFailure)

\* a call of a batch overload on keyList (in iteration order) with outcome r
BatchCall(op, keyList, r) ==
    /\ Len(keywords) < MaxKeywords
    /\ trieNodes' = r.nodes
    /\ keywords' = r.keywords
    /\ last' = [NoCall EXCEPT !.op = op, !.keyList = keyList,
                              !.threw = r.threw, !.trace = r.trace]
    /\ inserted' = inserted \o Successes(r.trace, r.threw)
    /\ finalized' = Finalized(finalized, r.trace, r.threw)
    /\ UNCHANGED <<CaseSensitive, scans>>

\* a call addString(keyList) with a std::vector
AddStringVector(keyList) ==
    BatchCall("addStringVector", keyList,
              addStringVector(CaseSensitive, trieNodes, keywords, keyList))

\* a call addString(keyList) with a std::set
AddStringSet(keySet) ==
    BatchCall("addStringSet", SetOrder(keySet),
              addStringSet(CaseSensitive, trieNodes, keywords, keySet))

\* mutant of ParseText: the scan first brings the links up to date
ParseTextFinalizing(text) ==
    /\ LET r == parseText(CaseSensitive, addFailureLinks(trieNodes), keywords, text)
       IN  last' = [NoCall EXCEPT !.op = "parseText", !.text = text,
                                  !.threw = r.threw, !.Results = r.Results,
                                  !.states = r.states]
    /\ trieNodes' = addFailureLinks(trieNodes)
    /\ finalized' = TRUE
    /\ UNCHANGED <<CaseSensitive, keywords, inserted, scans>>

\* a call parseText(text)
ParseText(text) ==
    /\ LET r == parseText(CaseSensitive, trieNodes, keywords, text)
       IN  last' = [NoCall EXCEPT !.op = "parseText", !.text = text,
                                  !.threw = r.threw, !.Results = r.Results,
                                  !.states = r.states]
    /\ UNCHANGED <<CaseSensitive, trieNodes, keywords, inserted, finalized, scans>>

\* thread t enters parseText(text): Results is empty, an empty text returns at
\* once, otherwise current = root and the loop starts at i = 0
ScanCall(t, text) ==
    /\ scans[t].pc = "idle"
    /\ scans' = [scans EXCEPT ![t] =
                     [IdleScan EXCEPT !.pc = IF text = <<>> THEN "done" ELSE "loop",
                                      !.text = text]]
    /\ UNCHANGED <<CaseSensitive, trieNodes, keywords, last, inserted, finalized>>

\* mutant of ScanCurrent: the scan state is one object shared by all calls
ScanCurrentShared(t) == scans[1].current

\* the local variable current of thread t's call of parseText
ScanCurrent(t) == scans[t].current

\* thread t runs one iteration of the for loop of parseText (it reads the trie
\* and the keyword list, and writes its own current, i and Results), and
\* returns after the last one
ScanStep(t) ==
    /\ scans[t].pc = "loop"
    /\ LET sc == scans[t]
           acc == parseStep(trieNodes, keywords,
                            findChild(trieNodes, ScanCurrent(t),
                                      FoldChar(CaseSensitive, sc.text[sc.i + 1])),
                            sc.i,
                            [Results |-> sc.Results, threw |-> sc.threw,
                             states |-> sc.states])
       IN  scans' = [scans EXCEPT ![t] =
                         [pc |-> IF sc.i + 1 >= Len(sc.text) \/ acc.threw
                                 THEN "done" ELSE "loop",
                          text |-> sc.text,
                          i |-> sc.i + 1,
                          current |-> acc.states[Len(acc.states)],
                          Results |-> acc.Results,
                          threw |-> acc.threw,
                          states |-> acc.states]]
    /\ UNCHANGED <<CaseSensitive, trieNodes, keywords, last, inserted, finalized>>

\* a call setCaseSensitivity(flag)
SetCaseSensitivity(flag) ==
    /\ LET r == setCaseSensitivity(keywords, flag)
       IN  /\ CaseSensitive' = r.caseSensitive
           /\ last' = [NoCall EXCEPT !.op = "setCaseSensitivity", !.flag = flag,
                                     !.threw = r.threw]
    /\ UNCHANGED <<trieNodes, keywords, inserted, finalized, scans>>

BatchLists == SeqsUpTo(BatchKeys, MaxBatch)
BatchSets == {S \in SUBSET BatchKeys : Cardinality(S) <= MaxBatch}

\* keyword_trie<CaseSensitive>: the case sensitivity is fixed at construction
Next ==
    \/ \E key \in Keys, addFailure \in BOOLEAN : AddString(key, addFailure)
    \/ \E keyList \in BatchLists : AddStringVector(keyList)
    \/ \E keySet \in BatchSets : AddStringSet(keySet)
    \/ \E text \in Texts : ParseText(text)

Spec == Init /\ [][Next]_vars

\* basic_trie: bool caseSensitive = true, changed by setCaseSensitivity
InitBasic ==
    /\ CaseSensitive = TRUE
    /\ trieNodes = <<RootNode>>
    /\ keywords = <<>>
    /\ last = NoCall
    /\ inserted = <<>>
    /\ finalized = TRUE
    /\ scans = [t \in Threads |-> IdleScan]

NextBasic ==
    \/ \E key \in Keys, addFailure \in BOOLEAN : AddString(key, addFailure)
    \/ \E keyList \in BatchLists : AddStringVector(keyList)
    \/ \E keySet \in BatchSets : AddStringSet(keySet)
    \/ \E text \in Texts : ParseText(text)
    \/ \E flag \in BOOLEAN : SetCaseSensitivity(flag)

SpecBasic == InitBasic /\ [][NextBasic]_vars

\* the texts scanned by the single-keyword automaton: those that begin with an
\* occurrence of the keyword (any text while there is no keyword)
StartsWithKeyword(text) ==
    \A k \in 1..Len(inserted) :
        /\ Len(inserted[k]) <= Len(text)
        /\ FoldString(CaseSensitive, SubSeq(text, 1, Len(inserted[k])))
               = FoldString(CaseSensitive, inserted[k])

\* an automaton of a single keyword (as the genome scan for "AACGTTCA"), with
\* keys and texts long enough for a keyword to overlap itself
NextSingle ==
    \/ \E key \in LongKeys, addFailure \in BOOLEAN : AddStringUpTo(1, key, addFailure)
    \/ \E text \in LongTexts : StartsWithKeyword(text) /\ ParseText(text)

\* keyword_trie<>: the default template argument, CaseSensitive = true
InitSensitive == Init /\ CaseSensitive = TRUE

SpecSingle == InitSensitive /\ [][NextSingle]_vars

\* the README example: trie.addString(...) for each keyword in turn, and scans
NextExample ==
    \/ /\ Len(keywords) < Len(ExampleKeys)
       /\ AddStringUpTo(Len(ExampleKeys), ExampleKeys[Len(keywords) + 1], TRUE)
    \/ \E text \in ExampleTexts : ParseText(text)

SpecExample == Init /\ [][NextExample]_vars

\* automata built by batches of keys of up to MaxBuildKeyLen symbols
NextBuild ==
    \E keyList \in BuildLists : AddStringVector(keyList)

SpecBuild == Init /\ [][NextBuild]_vars

\* threads that scan concurrently: the automaton is built while no call of
\* parseText is in flight and is not modified afterwards
NextScan ==
    \/ \E key \in ScanKeys, addFailure \in BOOLEAN :
           /\ \A t \in Threads : scans[t].pc = "idle"
           /\ AddStringUpTo(MaxKeywords, key, addFailure)
    \/ \E t \in Threads, text \in ScanTexts : ScanCall(t, text)
    \/ \E t \in Threads : ScanStep(t)

SpecScan == Init /\ [][NextScan]_vars

\* ---- vocabulary of the properties -----------------------------------------

Scanned == last.op = "parseText"

Batched == last.op \in {"addStringVector", "addStringSet"}

\* a string with every symbol folded to lower case
Lower(s) == [i \in 1..Len(s) |-> tolower(s[i])]

\* the normalized text of a key in the current automaton
Norm(s) == IF CaseSensitive THEN s ELSE Lower(s)

\* the node with the given path from the root, 0 when there is none
RECURSIVE NodeAt(_, _, _)
NodeAt(ns, from, path) ==
    IF from = 0 \/ path = <<>> THEN from
    ELSE NodeAt(ns, FirstChild(ns, ns[from].children, Head(path)), Tail(path))

\* the path of a node: the symbols from the root to it
RECURSIVE PathOf(_, _)
PathOf(ns, n) ==
    IF n = root THEN <<>> ELSE Append(PathOf(ns, ns[n].parent), ns[n].c)

\* k is a suffix of t
IsSuffixOf(k, t) == Len(k) <= Len(t) /\ SubSeq(t, Len(t) - Len(k) + 1, Len(t)) = k

\* the ids and offsets of a list of match records
Offsets(rs) == [j \in 1..Len(rs) |-> <<rs[j].id, rs[j].start, rs[j].end>>]

\* the failure and output links of all nodes
LinksOf(ns) == [n \in 1..Len(ns) |-> <<ns[n].failure, ns[n].output>>]

\* key is non-empty and its normalized text is that of a keyword in kws
IsDuplicate(kws, key) ==
    key # <<>> /\ \E k \in 1..Len(kws) : Norm(kws[k].keyword) = Norm(key)

\* the non-empty keys of a list, in order
RECURSIVE NonEmpty(_)
NonEmpty(keyList) ==
    IF keyList = <<>> THEN <<>>
    ELSE IF Head(keyList) = <<>> THEN NonEmpty(Tail(keyList))
    ELSE <<Head(keyList)>> \o NonEmpty(Tail(keyList))

\* the first item of keyList that repeats a keyword of kws or an earlier item
\* (0 when there is none)
FirstDuplicate(kws, keyList) ==
    LET dup(j) == \/ IsDuplicate(kws, keyList[j])
                  \/ /\ keyList[j] # <<>>
                     /\ \E m \in 1..(j - 1) : Norm(keyList[m]) = Norm(keyList[j])
    IN  IF \E j \in 1..Len(keyList) : dup(j)
        THEN CHOOSE j \in 1..Len(keyList) : dup(j) /\ \A m \in 1..(j - 1) : ~dup(m)
        ELSE 0

\* ---- C1 -------------------------------------------------------------------
\* C1 (completeness, as claimed): when the links are finalized, a scan reports,
\* for every position i and every inserted keyword that is a suffix of
\* text[0..i], a record with that keyword's id and end offset i.
C1_Completeness ==
    (Scanned /\ finalized /\ ~last.threw) =>
        \A i \in 0..(Len(last.text) - 1) : \A k \in 1..Len(inserted) :
            IsSuffixOf(Norm(inserted[k]), Norm(SubSeq(last.text, 1, i + 1))) =>
                \E j \in 1..Len(last.Results) :
                    last.Results[j].id = k - 1 /\ last.Results[j].end = i

\* ---- C2 -------------------------------------------------------------------
\* C2 (soundness of match records): every record of a scan lies inside the
\* text, has start = end - length + 1, carries the insertion index and the
\* original text of its keyword, and the text between start and end is that
\* keyword symbol by symbol up to case folding in an insensitive automaton.
C2_SoundRecords ==
    Scanned =>
        \A j \in 1..Len(last.Results) :
            LET r == last.Results[j]
            IN  /\ 0 <= r.start
                /\ r.start <= r.end
                /\ r.end < Len(last.text)
                /\ r.start = r.end - Len(r.keyword) + 1
                /\ r.id \in 0..(Len(inserted) - 1)
                /\ r.keyword = inserted[r.id + 1]
                /\ \A q \in 1..Len(r.keyword) :
                       FoldChar(CaseSensitive, last.text[r.start + q])
                           = FoldChar(CaseSensitive, r.keyword[q])

\* a scan that reports a keyword of two symbols matched only through folding
C2_Witness ==
    /\ Scanned
    /\ ~CaseSensitive
    /\ \E j \in 1..Len(last.Results) :
           /\ Len(last.Results[j].keyword) = 2
           /\ last.Results[j].start = 1
           /\ last.Results[j].keyword
                  # SubSeq(last.text, last.Results[j].start + 1, last.Results[j].end + 1)

\* ---- C3 -------------------------------------------------------------------
\* C3 (as claimed): whenever parseText is called, the failure and output links
\* are those a full link pass would leave, and the pass would change no result.
C3_ScansSeeFreshLinks ==
    Scanned =>
        /\ LinksOf(addFailureLinks(trieNodes)) = LinksOf(trieNodes)
        /\ parseText(CaseSensitive, addFailureLinks(trieNodes), keywords,
                     last.text).Results = last.Results

\* ---- C4 -------------------------------------------------------------------
\* C4 (duplicate rejection): a call addString(key) whose normalized key is
\* that of a keyword already inserted throws and leaves nodes (children, ids,
\* links) and the keyword list as they were.
C4_DuplicateRejected ==
    [][(last'.op = "addString" /\ IsDuplicate(keywords, last'.key)) =>
           (last'.threw /\ trieNodes' = trieNodes /\ keywords' = keywords
            /\ inserted' = inserted)]_vars

\* a rejected key that differs from the stored keyword in letter case only
C4_Witness ==
    /\ last.op = "addString"
    /\ last.threw
    /\ ~CaseSensitive
    /\ Len(last.key) >= 2
    /\ \A k \in 1..Len(keywords) : keywords[k].keyword # last.key

\* ---- C5 -------------------------------------------------------------------
\* C5 (dense identifiers): the keyword list has one record per successful
\* insertion, the k-th of them (from 0) has id k and the inserted text, on its
\* record and on the node that its normalized text leads to.
C5_DenseIds ==
    /\ Len(keywords) = Len(inserted)
    /\ \A k \in 1..Len(keywords) :
           /\ keywords[k].id = k - 1
           /\ keywords[k].keyword = inserted[k]
           /\ LET n == NodeAt(trieNodes, root, Norm(inserted[k]))
              IN  n # 0 /\ trieNodes[n].id = k - 1
    /\ \A n \in 1..Len(trieNodes) :
           trieNodes[n].id \in {-1} \cup 0..(Len(keywords) - 1)

\* a batch of an empty string, a new key and a rejected duplicate
C5_Witness ==
    /\ last.op = "addStringVector"
    /\ last.threw
    /\ Len(last.keyList) = 3
    /\ last.keyList[1] = <<>>
    /\ Len(keywords) = 2

\* ---- C6 -------------------------------------------------------------------
\* C6 (match ordering): the records of a scan are ordered by end offset; those
\* that share an end offset come in strictly decreasing keyword length, the
\* match of the node reached at that offset (if it carries a keyword) first.
C6_MatchOrder ==
    Scanned =>
        /\ \A j \in 1..(Len(last.Results) - 1) :
               /\ last.Results[j].end <= last.Results[j + 1].end
               /\ last.Results[j].end = last.Results[j + 1].end =>
                      Len(last.Results[j].keyword) > Len(last.Results[j + 1].keyword)
        /\ \A i \in 0..(Len(last.states) - 1) :
               trieNodes[last.states[i + 1]].id # -1 =>
                   \E j \in 1..Len(last.Results) :
                       /\ last.Results[j].end = i
                       /\ last.Results[j].id = trieNodes[last.states[i + 1]].id
                       /\ \A m \in 1..(j - 1) : last.Results[m].end < i

\* a scan with a direct match and an output-chain match at one end offset
C6_Witness ==
    /\ Scanned
    /\ \E j \in 1..(Len(last.Results) - 1) :
           /\ last.Results[j].end = last.Results[j + 1].end
           /\ last.Results[j].id = trieNodes[last.states[last.Results[j].end + 1]].id

\* ---- C7 -------------------------------------------------------------------
\* C7 (case-agnostic matching): in a case-insensitive automaton a scan gives
\* the same ids and offsets for every text equal to the scanned one after
\* folding, and an insertion gives the same nodes, ids and outcome for every
\* key equal to the inserted one after folding.
C7_CaseAgnostic ==
    ~CaseSensitive =>
        /\ Scanned =>
               \A t \in Texts :
                   Lower(t) = Lower(last.text) =>
                       Offsets(parseText(CaseSensitive, trieNodes, keywords, t).Results)
                           = Offsets(last.Results)
        /\ ~Scanned =>
               \A key \in Keys, addFailure \in BOOLEAN :
                   LET r1 == addString(CaseSensitive, trieNodes, keywords, key, addFailure)
                       r2 == addString(CaseSensitive, trieNodes, keywords, Lower(key),
                                       addFailure)
                   IN  /\ r1.nodes = r2.nodes
                       /\ r1.threw = r2.threw
                       /\ Len(r1.keywords) = Len(r2.keywords)

\* an upper-case keyword found in a text of the other letter case
C7_Witness ==
    /\ Scanned
    /\ ~CaseSensitive
    /\ \E j \in 1..Len(last.Results) :
           /\ last.Results[j].keyword = <<"A", "A">>
           /\ SubSeq(last.text, last.Results[j].start + 1, last.Results[j].end + 1)
                  = <<"a", "a">>

\* ---- C8 -------------------------------------------------------------------
\* C8 (as claimed): setCaseSensitivity throws exactly when a keyword exists,
\* for either value of the flag.
C8_SetCaseFailsWithKeywords ==
    last.op = "setCaseSensitivity" => (last.threw <=> keywords # <<>>)

\* ---- C9 -------------------------------------------------------------------
\* C9 (batch insertion): a batch that returns has called addString(key, false)
\* on every item in order and then run the link pass once, after the last item.
C9_BatchSinglePass ==
    (Batched /\ ~last.threw) =>
        last.trace = [j \in 1..Len(last.keyList) |-> CallEvent(last.keyList[j], FALSE)]
                         \o <<LinkEvent>>

\* a batch from a std::set that inserted two keywords
C9_Witness ==
    /\ last.op = "addStringSet"
    /\ ~last.threw
    /\ Len(last.keyList) = 2
    /\ Len(keywords) = 2
    /\ trieNodes[2].failure # root \/ trieNodes[3].failure # root

\* ---- C10 ------------------------------------------------------------------
\* C10 (batch abort): a batch throws exactly when an item repeats a keyword or
\* an earlier item; it then stops at the first such item: the non-empty items
\* before it are recorded with the next identifiers, no later item is
\* processed, no link pass runs, no link of an existing node changes and the
\* new nodes have failure = output = root.
C10_Step ==
    LET d == FirstDuplicate(keywords, last'.keyList)
        before == NonEmpty(SubSeq(last'.keyList, 1, d - 1))
    IN  /\ last'.threw <=> d # 0
        /\ d # 0 =>
               /\ keywords' = keywords \o
                      [j \in 1..Len(before) |->
                           [keyword |-> before[j], id |-> Len(keywords) + j - 1]]
               /\ \A j \in 1..Len(before) :
                      LET n == NodeAt(trieNodes', root, Norm(before[j]))
                      IN  n # 0 /\ trieNodes'[n].id = Len(keywords) + j - 1
               /\ last'.trace = [j \in 1..d |-> CallEvent(last'.keyList[j], FALSE)]
               /\ \A n \in 1..Len(trieNodes) :
                      /\ trieNodes'[n].failure = trieNodes[n].failure
                      /\ trieNodes'[n].output = trieNodes[n].output
               /\ \A n \in (Len(trieNodes) + 1)..Len(trieNodes') :
                      trieNodes'[n].failure = root /\ trieNodes'[n].output = root
               /\ ~finalized' \/ (before = <<>> /\ finalized)

C10_BatchAbort ==
    [][(last'.op \in {"addStringVector", "addStringSet"}) => C10_Step]_vars

\* a batch that inserted its first item, was stopped by its second, a
\* duplicate, and left its third, a new key, out
C10_Witness ==
    /\ last.op = "addStringVector"
    /\ last.threw
    /\ Len(last.keyList) = 3
    /\ Len(last.trace) = 2
    /\ Len(keywords) = 2
    /\ NodeAt(trieNodes, root, Norm(last.keyList[3])) = 0
    /\ ~finalized

\* ---- C11 ------------------------------------------------------------------
\* C11 (as claimed): a finalized automaton of exactly one keyword K reports
\* every occurrence of K in the scanned text, also one that overlaps an earlier
\* occurrence, with the start and end offsets of that occurrence.
C11_EveryOccurrence ==
    (Scanned /\ finalized /\ Len(inserted) = 1) =>
        LET K == Norm(inserted[1])
            t == Norm(last.text)
        IN  \A s \in 0..(Len(t) - Len(K)) :
                SubSeq(t, s + 1, s + Len(K)) = K =>
                    \E j \in 1..Len(last.Results) :
                        /\ last.Results[j].id = 0
                        /\ last.Results[j].start = s
                        /\ last.Results[j].end = s + Len(K) - 1

\* ---- C12 ------------------------------------------------------------------
\* the nodes of an output chain, from temp to the root, all carry the id of a
\* keyword record
RECURSIVE ChainIdsInRange(_, _, _)
ChainIdsInRange(ns, kws, temp) ==
    temp = root \/ (InRange(kws, ns[temp].id) /\ ChainIdsInRange(ns, kws, ns[temp].output))

\* C12 (parseText never fails): in every state, finalized or not, no scan of
\* any text raises; every node that a scan can reach carries no id or the id of
\* a keyword record, and so does every node of its output chain.
C12_ScanNeverThrows ==
    /\ Scanned => ~last.threw
    /\ \A text \in Texts : ~parseText(CaseSensitive, trieNodes, keywords, text).threw
    /\ \A n \in 1..Len(trieNodes) :
           /\ trieNodes[n].id # -1 => InRange(keywords, trieNodes[n].id)
           /\ ChainIdsInRange(trieNodes, keywords, trieNodes[n].output)

\* a scan that looked up a record for the node reached and for a node of its
\* output chain at each of three positions where both exist
C12_Witness ==
    /\ Scanned
    /\ ~last.threw
    /\ Len(last.text) = 3
    /\ Len(last.Results) = 5
    /\ \E n \in 1..Len(trieNodes) : trieNodes[n].id # -1 /\ trieNodes[n].output # root

\* ---- C13 ------------------------------------------------------------------
\* C13 (scanning does not mutate): a call of parseText leaves the nodes (their
\* children, depths, ids, failure and output links), the keyword list and the
\* case sensitivity as they were.
C13_ScanFrame ==
    [][last'.op = "parseText" =>
           /\ trieNodes' = trieNodes
           /\ keywords' = keywords
           /\ CaseSensitive' = CaseSensitive
           /\ inserted' = inserted
           /\ finalized' = finalized]_vars

\* a scan with matches of an automaton whose links a pass would still change
C13_Witness ==
    /\ Scanned
    /\ ~finalized
    /\ last.Results # <<>>
    /\ LinksOf(addFailureLinks(trieNodes)) # LinksOf(trieNodes)

\* ---- C14 ------------------------------------------------------------------
\* C14 (concurrent scans): whatever the interleaving of the iterations of the
\* calls in flight, each call has, after i iterations, the records, the states
\* and the current node of a call that scans the first i symbols of its text
\* alone; a call that returned has the result of the call run alone.
C14_ScansIndependent ==
    \A t \in Threads :
        scans[t].pc # "idle" =>
            LET sc == scans[t]
                alone == parseText(CaseSensitive, trieNodes, keywords,
                                   SubSeq(sc.text, 1, sc.i))
            IN  /\ sc.Results = alone.Results
                /\ sc.states = alone.states
                /\ sc.threw = alone.threw
                /\ sc.current = IF sc.i = 0 THEN root ELSE alone.states[sc.i]
                /\ sc.pc = "done" => sc.i = Len(sc.text)

\* two calls over different texts, both inside the loop after their first
\* iteration, one with a match and one in another state without a match
C14_Witness ==
    /\ scans[1].pc = "loop" /\ scans[1].i = 1
    /\ scans[2].pc = "loop" /\ scans[2].i = 1
    /\ scans[1].text # scans[2].text
    /\ scans[1].current # scans[2].current
    /\ scans[1].Results # <<>>
    /\ scans[2].Results = <<>>

\* ---- C15 ------------------------------------------------------------------
\* C15 (empty string): a call addString("") with either value of addFailure
\* returns normally, makes no other call (no link pass) and leaves the nodes,
\* their ids and links and the keyword list as they were; the same holds of
\* such a call in the state that any step leads to.
C15_EmptyInsertNoOp ==
    [][/\ (last'.op = "addString" /\ last'.key = <<>>) =>
              /\ ~last'.threw
              /\ last'.trace = <<CallEvent(<<>>, last'.addFailure)>>
              /\ trieNodes' = trieNodes
              /\ keywords' = keywords
              /\ inserted' = inserted
              /\ finalized' = finalized
       /\ \A addFailure \in BOOLEAN :
              LET r == addString(CaseSensitive', trieNodes', keywords', <<>>, addFailure)
              IN  ~r.threw /\ r.nodes = trieNodes' /\ r.keywords = keywords']_vars

\* the empty string inserted, with addFailure = true, into an automaton whose
\* links a pass would change
C15_Witness ==
    /\ last.op = "addString"
    /\ last.key = <<>>
    /\ last.addFailure
    /\ keywords # <<>>
    /\ ~finalized
    /\ LinksOf(addFailureLinks(trieNodes)) # LinksOf(trieNodes)

\* ---- C16 ------------------------------------------------------------------
\* p is a proper prefix of k
PrefixOf(p, k) == Len(p) < Len(k) /\ SubSeq(k, 1, Len(p)) = p

\* the length of the longest prefix of key that is a path from the root
ExistingDepth(ns, key) ==
    CHOOSE d \in 0..Len(key) :
        /\ NodeAt(ns, root, SubSeq(key, 1, d)) # 0
        /\ \A e \in (d + 1)..Len(key) : NodeAt(ns, root, SubSeq(key, 1, e)) = 0

\* the insertion part of C16: a new key that is a proper prefix of a keyword is
\* accepted, creates no node and puts the next id on the existing node; a new
\* key that properly extends a keyword is accepted, leaves that keyword's id on
\* its node and creates one node per symbol beyond the existing path
C16_InsertStep ==
    (last'.op = "addString" /\ last'.key # <<>> /\ ~IsDuplicate(keywords, last'.key)) =>
        LET key == Norm(last'.key)
            old == NodeAt(trieNodes, root, key)
        IN  /\ (\E k \in 1..Len(inserted) : PrefixOf(key, Norm(inserted[k]))) =>
                   /\ ~last'.threw
                   /\ Len(trieNodes') = Len(trieNodes)
                   /\ old # 0
                   /\ trieNodes'[old].id = Len(keywords)
                   /\ keywords' = Append(keywords,
                                         [keyword |-> last'.key, id |-> Len(keywords)])
            /\ \A k \in 1..Len(inserted) :
                   PrefixOf(Norm(inserted[k]), key) =>
                       /\ ~last'.threw
                       /\ trieNodes'[NodeAt(trieNodes, root, Norm(inserted[k]))].id = k - 1
                       /\ Len(trieNodes') - Len(trieNodes)
                              = Len(key) - ExistingDepth(trieNodes, key)
                       /\ trieNodes'[NodeAt(trieNodes', root, key)].id = Len(keywords)
                       /\ keywords' = Append(keywords,
                                             [keyword |-> last'.key, id |-> Len(keywords)])

\* the scan part of C16: with finalized links, a keyword and a keyword that
\* extends it are both reported at each of their occurrences in the text
C16_BothReported ==
    (Scanned /\ finalized) =>
        \A k1, k2 \in 1..Len(inserted) :
            PrefixOf(Norm(inserted[k1]), Norm(inserted[k2])) =>
                \A k \in {k1, k2} :
                    LET K == Norm(inserted[k])
                        t == Norm(last.text)
                    IN  \A s \in 0..(Len(t) - Len(K)) :
                            SubSeq(t, s + 1, s + Len(K)) = K =>
                                \E j \in 1..Len(last.Results) :
                                    /\ last.Results[j].id = k - 1
                                    /\ last.Results[j].start = s
                                    /\ last.Results[j].end = s + Len(K) - 1

\* the insertion part alone, over every step
C16_InsertionLegal == [][C16_InsertStep]_vars

\* C16 (as claimed): prefix and extension keywords are accepted as described
\* and, once the links are finalized, both are reported wherever they occur.
C16_PrefixAndExtension == [][C16_InsertStep /\ C16_BothReported']_vars

\* ---- C17 ------------------------------------------------------------------
\* C17 (documented example): with "hers", "his", "she", "he", "her" inserted in
\* that order (ids 0 to 4), the scan of "ushers" returns exactly "she"[1,3],
\* "he"[2,3], "her"[2,4], "hers"[2,5], in that order.
C17_DocumentedExample ==
    /\ \A k \in 1..Len(keywords) :
           keywords[k] = [keyword |-> ExampleKeys[k], id |-> k - 1]
    /\ (Scanned /\ inserted = ExampleKeys /\ last.text = ExampleText) =>
           /\ ~last.threw
           /\ last.Results =
                  << [keyword |-> <<"s", "h", "e">>, id |-> 2, start |-> 1, end |-> 3],
                     [keyword |-> <<"h", "e">>, id |-> 3, start |-> 2, end |-> 3],
                     [keyword |-> <<"h", "e", "r">>, id |-> 4, start |-> 2, end |-> 4],
                     [keyword |-> <<"h", "e", "r", "s">>, id |-> 0, start |-> 2, end |-> 5] >>

\* the scan of "ushers" after the five insertions
C17_Witness ==
    /\ Scanned
    /\ inserted = ExampleKeys
    /\ last.text = ExampleText
    /\ Len(last.Results) = 4

\* ---- C18 ------------------------------------------------------------------
\* C18 (empty text): in every state the scan of the empty text returns the
\* empty list and raises nothing.
C18_EmptyText ==
    /\ (Scanned /\ last.text = <<>>) =>
           (last.Results = <<>> /\ ~last.threw /\ last.states = <<>>)
    /\ LET r == parseText(CaseSensitive, trieNodes, keywords, <<>>)
       IN  r.Results = <<>> /\ ~r.threw

\* the empty text scanned by an automaton of two keywords with stale links
C18_Witness ==
    /\ Scanned
    /\ last.text = <<>>
    /\ Len(keywords) = 2
    /\ ~finalized

\* ---- C19 ------------------------------------------------------------------
\* C19 (empty automaton): while no keyword has been inserted only the root
\* exists, every scan returns the empty list, and the state after every symbol
\* is the root.
C19_EmptyAutomaton ==
    inserted = <<>> =>
        /\ Len(trieNodes) = 1
        /\ keywords = <<>>
        /\ Scanned =>
               /\ last.Results = <<>>
               /\ ~last.threw
               /\ Len(last.states) = Len(last.text)
               /\ \A i \in 1..Len(last.states) : last.states[i] = root

\* a text of three symbols, not all the same, scanned by the automaton without
\* keywords
C19_Witness ==
    /\ Scanned
    /\ inserted = <<>>
    /\ Len(last.text) = 3
    /\ last.states = <<root, root, root>>
    /\ last.text[1] # last.text[2]

\* ---- C20 ------------------------------------------------------------------
\* the lengths of the non-empty proper suffixes of path that are paths from the
\* root
SuffixDepths(ns, path) ==
    {d \in 1..(Len(path) - 1) :
        NodeAt(ns, root, SubSeq(path, Len(path) - d + 1, Len(path))) # 0}

\* the node of the longest proper suffix of path that is a path from the root
LongestSuffixNode(ns, path) ==
    IF SuffixDepths(ns, path) = {} THEN root
    ELSE LET d == CHOOSE x \in SuffixDepths(ns, path) :
                      \A y \in SuffixDepths(ns, path) : y <= x
         IN  NodeAt(ns, root, SubSeq(path, Len(path) - d + 1, Len(path)))

\* C20 (as claimed): after a link pass the failure link of every node other
\* than the root is the node of the longest proper suffix of its path that is
\* a path from the root, the root when there is none.
C20_LongestProperSuffix ==
    finalized =>
        \A n \in 2..Len(trieNodes) :
            trieNodes[n].failure = LongestSuffixNode(trieNodes, PathOf(trieNodes, n))

\* ---- C21 ------------------------------------------------------------------
\* the node arrays that a link pass started with the queue q goes through: before
\* and after each visit, and between the two assignments of a visit
RECURSIVE PassStatesFrom(_, _)
PassStatesFrom(ns, q) ==
    IF q = <<>> THEN {ns}
    ELSE LET temp == Head(q)
             half == [ns EXCEPT ![temp].failure = NewFailure(ns, temp)]
         IN  {ns, half} \cup PassStatesFrom(VisitNode(ns, temp),
                                            Tail(q) \o ns[temp].children)

\* the current nodes and every intermediate state of a link pass run on them
PassStates == PassStatesFrom(trieNodes, <<root>>)

\* the root links to itself and every other failure link leads to a shallower node
FailureShallower(ns) ==
    /\ ns[root].failure = root
    /\ ns[root].output = root
    /\ \A n \in 2..Len(ns) :
           /\ ns[ns[n].failure].depth < ns[n].depth
           /\ ns[n].depth = 1 => ns[n].failure = root

\* C21 (failure links lead upwards): in every state, and in every intermediate
\* state of a link pass run from it, failure(root) = output(root) = root, the
\* failure link of every other node is strictly shallower than the node, and
\* that of a node of depth 1 is the root.
C21_FailureShallower == \A ns \in PassStates : FailureShallower(ns)

\* stale links: a node with a failure link other than the root next to links
\* that a pass would change
C21_Witness ==
    /\ ~finalized
    /\ \E n \in 2..Len(trieNodes) : trieNodes[n].failure # root
    /\ LinksOf(addFailureLinks(trieNodes)) # LinksOf(trieNodes)

\* ---- C22 ------------------------------------------------------------------
\* the number of output links from n to the root, -1 if the root is not reached
\* within fuel links
RECURSIVE OutputSteps(_, _, _)
OutputSteps(ns, n, fuel) ==
    IF n = root THEN 0
    ELSE IF fuel = 0 THEN -1
    ELSE LET rest == OutputSteps(ns, ns[n].output, fuel - 1)
         IN  IF rest = -1 THEN -1 ELSE rest + 1

OutputBounded(ns) ==
    \A n \in 1..Len(ns) :
        /\ ns[n].output = root \/ ns[ns[n].output].id # -1
        /\ n # root => ns[ns[n].output].depth < ns[n].depth
        /\ OutputSteps(ns, n, ns[n].depth) # -1

\* C22 (output links): in every state, and in every intermediate state of a
\* link pass run from it, the output link of a node is the root or a node with
\* a keyword id, is strictly shallower than the node, and the chain of output
\* links from a node reaches the root within depth(node) links.
C22_OutputBounded == \A ns \in PassStates : OutputBounded(ns)

\* a node of depth 3 whose output link is a keyword node of depth 2, from
\* which the output chain reaches the root
C22_Witness ==
    \E n \in 2..Len(trieNodes) :
        /\ trieNodes[n].depth = 3
        /\ trieNodes[trieNodes[n].output].depth = 2
        /\ OutputSteps(trieNodes, n, 3) = 2

\* ---- C23 ------------------------------------------------------------------
\* the nodes with a keyword id on the failure chain that starts at n (inclusive)
RECURSIVE KeywordNodesFrom(_, _)
KeywordNodesFrom(ns, n) ==
    IF n = root THEN <<>>
    ELSE IF ns[n].id # -1 THEN <<n>> \o KeywordNodesFrom(ns, ns[n].failure)
    ELSE KeywordNodesFrom(ns, ns[n].failure)

\* the nodes of the output chain that starts at n (inclusive)
RECURSIVE OutputChainFrom(_, _)
OutputChainFrom(ns, n) ==
    IF n = root THEN <<>> ELSE <<n>> \o OutputChainFrom(ns, ns[n].output)

\* C23 (output links follow the failure chain): after a link pass the output
\* link of every node is the first node with a keyword id on the chain
\* failure(N), failure(failure(N)), ..., the root if there is none, and the
\* output chain of N lists the keyword nodes of that failure chain in order.
C23_OutputIsFirstKeyword ==
    finalized =>
        \A n \in 1..Len(trieNodes) :
            LET onChain == KeywordNodesFrom(trieNodes, trieNodes[n].failure)
            IN  /\ trieNodes[n].output = IF onChain = <<>> THEN root ELSE Head(onChain)
                /\ OutputChainFrom(trieNodes, trieNodes[n].output) = onChain

\* finalized links with an output link that skips a node without id on the
\* failure chain
C23_Witness ==
    /\ finalized
    /\ \E n \in 2..Len(trieNodes) :
           /\ trieNodes[n].output # root
           /\ trieNodes[n].output # trieNodes[n].failure

\* ---- C24 ------------------------------------------------------------------
\* C24 (idempotent link pass): a link pass run on the result of a link pass
\* changes nothing, whatever the state the first one started from; and a call
\* that runs the pass without inserting anything (a batch without items or of
\* empty strings) on finalized links leaves every link as it was.
C24_PassIdempotent ==
    [][/\ LET once == addFailureLinks(trieNodes')
          IN  addFailureLinks(once) = once
       /\ (last'.op \in {"addStringVector", "addStringSet"} /\ ~last'.threw
              /\ inserted' = inserted /\ finalized) =>
              trieNodes' = trieNodes]_vars

\* a batch without keyword that ran the pass on an automaton with a failure
\* link other than the root
C24_Witness ==
    /\ last.op = "addStringVector"
    /\ ~last.threw
    /\ last.trace = <<CallEvent(<<>>, FALSE), LinkEvent>>
    /\ finalized
    /\ \E n \in 2..Len(trieNodes) : trieNodes[n].failure # root

\* ---- C25 ------------------------------------------------------------------
\* the reference transition: failure links are followed from S while the node
\* is not the root and has no child labelled c
RECURSIVE RefFollow(_, _, _)
RefFollow(ns, S, c) ==
    IF S # root /\ FirstChild(ns, ns[S].children, c) = 0
    THEN RefFollow(ns, ns[S].failure, c)
    ELSE S

\* then the child labelled c is taken if there is one, the root otherwise
RefTransition(ns, S, c) ==
    LET hit == FirstChild(ns, ns[RefFollow(ns, S, c)].children, c)
    IN  IF hit # 0 THEN hit ELSE root

\* C25 (scan transition): in every state, for every node S and every symbol c,
\* findChild(S, c) is an existing node and is the node of the reference
\* transition; every transition of a scan is that of the reference.
C25_TransitionTotal ==
    /\ \A S \in 1..Len(trieNodes) : \A c \in Chars \cup {"b"} :
           /\ findChild(trieNodes, S, c) \in 1..Len(trieNodes)
           /\ findChild(trieNodes, S, c) = RefTransition(trieNodes, S, c)
    /\ Scanned =>
           \A i \in 1..Len(last.states) :
               last.states[i] =
                   RefTransition(trieNodes,
                                 IF i = 1 THEN root ELSE last.states[i - 1],
                                 FoldChar(CaseSensitive, last.text[i]))

\* a scan with a transition that found no child, followed a failure link to a
\* node other than the root and took a child there
C25_Witness ==
    /\ Scanned
    /\ \E i \in 2..Len(last.states) :
           LET S == last.states[i - 1]
               c == FoldChar(CaseSensitive, last.text[i])
           IN  /\ FirstChild(trieNodes, trieNodes[S].children, c) = 0
               /\ trieNodes[S].failure # root
               /\ last.states[i] # root
               /\ trieNodes[last.states[i]].depth = 2

\* ---- C26 ------------------------------------------------------------------
\* the failure link of n is one level above n
Optimal(ns, n) == ns[ns[n].failure].depth = ns[n].depth - 1

\* C26 (a failure link one level shallower is final): no step changes the
\* failure link of a node whose failure link is one level shallower than the
\* node, and in the state after every step such a link is the node of the
\* longest proper suffix of the node's path that is a path from the root.
C26_OptimumIsFinal ==
    [][/\ \A n \in 2..Len(trieNodes) :
              Optimal(trieNodes, n) => trieNodes'[n].failure = trieNodes[n].failure
       /\ \A n \in 2..Len(trieNodes') :
              Optimal(trieNodes', n) =>
                  trieNodes'[n].failure
                      = LongestSuffixNode(trieNodes', PathOf(trieNodes', n))]_vars

\* a first keyword of three symbols whose last node has the failure link of
\* depth 2, after a second keyword was inserted and the pass run again
C26_Witness ==
    /\ Len(inserted) = 2
    /\ Len(inserted[1]) = 3
    /\ trieNodes[4].depth = 3
    /\ trieNodes[4].failure = 3
    /\ last.op = "addString"
    /\ ~last.threw
    /\ last.addFailure

\* ---- C27 ------------------------------------------------------------------
\* the number of positions of the children list of m that hold n
TimesChildOf(ns, m, n) ==
    Cardinality({j \in 1..Len(ns[m].children) : ns[m].children[j] = n})

\* the prefixes (the empty one included) of the normalized inserted keys
InsertedPrefixes ==
    UNION {{SubSeq(Norm(inserted[k]), 1, d) : d \in 0..Len(inserted[k])} :
               k \in 1..Len(inserted)}
        \cup {<<>>}

\* C27 (shape of the trie): the root has depth 0; every other node is once in
\* the children list of its parent and in no other list, one level below its
\* parent; the children of a node have distinct symbols; the nodes have
\* distinct paths, and the paths are the prefixes of the normalized keys
\* inserted so far, the empty one being the path of the root.
C27_TrieShape ==
    /\ trieNodes[root].depth = 0
    /\ trieNodes[root].parent = root
    /\ \A m \in 1..Len(trieNodes) : TimesChildOf(trieNodes, m, root) = 0
    /\ \A n \in 2..Len(trieNodes) :
           /\ trieNodes[n].parent \in 1..Len(trieNodes)
           /\ trieNodes[n].depth = trieNodes[trieNodes[n].parent].depth + 1
           /\ \A m \in 1..Len(trieNodes) :
                  TimesChildOf(trieNodes, m, n) = IF m = trieNodes[n].parent THEN 1 ELSE 0
    /\ \A m \in 1..Len(trieNodes) :
           \A i, j \in 1..Len(trieNodes[m].children) :
               i # j => trieNodes[trieNodes[m].children[i]].c
                           # trieNodes[trieNodes[m].children[j]].c
    /\ \A n1, n2 \in 1..Len(trieNodes) :
           n1 # n2 => PathOf(trieNodes, n1) # PathOf(trieNodes, n2)
    /\ {PathOf(trieNodes, n) : n \in 1..Len(trieNodes)} = InsertedPrefixes

\* two keywords of three symbols that share their first symbol only
C27_Witness ==
    /\ Len(trieNodes) = 6
    /\ Len(trieNodes[root].children) = 1
    /\ Len(trieNodes[2].children) = 2
    /\ Len(inserted) = 2

\* ---- C28 ------------------------------------------------------------------
\* C28 (terminal nodes and keyword records): every id from 0 to |keywords| - 1
\* is on exactly one node and every other node has the id -1; the node with
\* id k has the normalized text of keywords[k] as its path and the length of
\* that text as its depth.
C28_TerminalsMatchRecords ==
    /\ \A n \in 1..Len(trieNodes) :
           trieNodes[n].id = -1 \/ InRange(keywords, trieNodes[n].id)
    /\ \A k \in 0..(Len(keywords) - 1) :
           /\ Cardinality({n \in 1..Len(trieNodes) : trieNodes[n].id = k}) = 1
           /\ \A n \in 1..Len(trieNodes) :
                  trieNodes[n].id = k =>
                      /\ PathOf(trieNodes, n) = Norm(keywords[k + 1].keyword)
                      /\ trieNodes[n].depth = Len(keywords[k + 1].keyword)
                      /\ n # root

\* a second keyword on an interior node of the path of the first, whose record
\* keeps a text that differs from the path in letter case
C28_Witness ==
    /\ ~CaseSensitive
    /\ Len(keywords) = 2
    /\ \E n \in 2..Len(trieNodes) :
           /\ trieNodes[n].id = 1
           /\ trieNodes[n].children # <<>>
           /\ keywords[2].keyword # PathOf(trieNodes, n)

\* ---- C29 ------------------------------------------------------------------
\* the number of failure links from n to the root, -1 if the root is not
\* reached within fuel links
RECURSIVE FailureSteps(_, _, _)
FailureSteps(ns, n, fuel) ==
    IF n = root THEN 0
    ELSE IF fuel = 0 THEN -1
    ELSE LET rest == FailureSteps(ns, ns[n].failure, fuel - 1)
         IN  IF rest = -1 THEN -1 ELSE rest + 1

\* C29 (termination): in every state the link pass takes every node exactly
\* once from its queue, each node after its parent and no node before a
\* shallower one, and ends with the result of these visits; a scan makes
\* exactly one transition per symbol of the text; from every node the failure
\* chain and the output chain reach the root within depth(node) links.
C29_Terminates ==
    /\ LET order == BfsOrder(trieNodes, <<root>>)
       IN  /\ Len(order) = Len(trieNodes)
           /\ {order[j] : j \in 1..Len(order)} = 1..Len(trieNodes)
           /\ order[1] = root
           /\ \A i, j \in 1..Len(order) :
                  /\ order[i] = trieNodes[order[j]].parent /\ order[j] # root => i < j
                  /\ i < j => trieNodes[order[i]].depth <= trieNodes[order[j]].depth
           /\ addFailureLinks(trieNodes) = VisitAll(trieNodes, order)
    /\ Scanned => (Len(last.states) = Len(last.text) /\ ~last.threw)
    /\ \A text \in Texts :
           Len(parseText(CaseSensitive, trieNodes, keywords, text).states) = Len(text)
    /\ \A n \in 1..Len(trieNodes) :
           /\ FailureSteps(trieNodes, n, trieNodes[n].depth) # -1
           /\ OutputSteps(trieNodes, n, trieNodes[n].depth) # -1

\* a scan of three symbols with matches, after a pass over seven nodes with a
\* failure chain of two links
C29_Witness ==
    /\ Scanned
    /\ finalized
    /\ Len(last.text) = 3
    /\ last.Results # <<>>
    /\ Len(trieNodes) = 7
    /\ \E n \in 2..Len(trieNodes) : FailureSteps(trieNodes, n, 3) = 2

\* ---- C30 ------------------------------------------------------------------
\* C30 (as claimed): an automaton built from the empty one by one batch of
\* distinct keywords has, on every node, the failure and output links of the
\* automaton built by inserting the same keywords one at a time with a link
\* pass after each, and both give the same records for every text.
C30_HistoryIndependent ==
    (Batched /\ ~last.threw /\ inserted = NonEmpty(last.keyList)) =>
        LET inc == addOneByOne(CaseSensitive, <<RootNode>>, <<>>, last.keyList)
        IN  /\ ~inc.threw
            /\ inc.keywords = keywords
            /\ LinksOf(inc.nodes) = LinksOf(trieNodes)
            /\ \A text \in BuildTexts :
                   parseText(CaseSensitive, inc.nodes, inc.keywords, text).Results
                       = parseText(CaseSensitive, trieNodes, keywords, text).Results

\* the same with the records only, whatever the links
C30_SameRecords ==
    (Batched /\ ~last.threw /\ inserted = NonEmpty(last.keyList)) =>
        LET inc == addOneByOne(CaseSensitive, <<RootNode>>, <<>>, last.keyList)
        IN  \A text \in BuildTexts :
                parseText(CaseSensitive, inc.nodes, inc.keywords, text).Results
                    = parseText(CaseSensitive, trieNodes, keywords, text).Results

\* ---- C31 ------------------------------------------------------------------
\* the node of the longest suffix of t (t itself included) that is a path from
\* the root
LongestPathSuffix(ns, t) ==
    LET ds == {d \in 0..Len(t) : NodeAt(ns, root, SubSeq(t, Len(t) - d + 1, Len(t))) # 0}
        d == CHOOSE x \in ds : \A y \in ds : y <= x
    IN  NodeAt(ns, root, SubSeq(t, Len(t) - d + 1, Len(t)))

\* C31 (as claimed): with finalized links, the state of a scan after each
\* symbol is the node of the longest suffix of the normalized text read so far
\* that is a path of the trie.
C31_StateIsLongestSuffix ==
    (Scanned /\ finalized) =>
        \A i \in 1..Len(last.states) :
            last.states[i] = LongestPathSuffix(trieNodes, Norm(SubSeq(last.text, 1, i)))

\* ---- C32 ------------------------------------------------------------------
\* p is a proper suffix of t
ProperSuffixOf(p, t) == Len(p) < Len(t) /\ IsSuffixOf(p, t)

SuffixLinks(ns) ==
    \A n \in 2..Len(ns) :
        /\ ProperSuffixOf(PathOf(ns, ns[n].failure), PathOf(ns, n))
        /\ ProperSuffixOf(PathOf(ns, ns[n].output), PathOf(ns, n))

\* C32 (links are suffix links): in every state, finalized or not, and in
\* every intermediate state of a link pass run from it, the paths of the
\* failure link and of the output link of every node other than the root are
\* proper suffixes of the path of the node.
C32_SuffixLinks == \A ns \in PassStates : SuffixLinks(ns)

\* links not finalized: a node of depth 3 keeps a failure link to a node
\* other than the root, and a link pass run from this state passes through a
\* state in which some node has an output link to a node other than the root
C32_Witness ==
    /\ ~finalized
    /\ \E n \in 2..Len(trieNodes) :
           /\ trieNodes[n].depth = 3
           /\ trieNodes[n].failure # root
    /\ \E ns \in PassStates : \E n \in 2..Len(ns) : ns[n].output # root

\* ---- C33 ------------------------------------------------------------------
\* C33 (as claimed): a call setCaseSensitivity(flag) that fails leaves the
\* case-sensitivity setting at the value it had before the call.
C33_RejectedSetterKeepsFlag ==
    [][(last'.op = "setCaseSensitivity" /\ last'.threw) =>
           CaseSensitive' = CaseSensitive]_vars

\* ---- C34 ------------------------------------------------------------------
\* C34 (insertion without the pass touches no link): a call
\* addString(key, false) that returns leaves the failure and output links of
\* every node that existed before the call as they were, and every node it
\* creates has failure = output = root.
C34_NoPassNoLinkChange ==
    [][(last'.op = "addString" /\ ~last'.addFailure /\ ~last'.threw) =>
           /\ Len(trieNodes') >= Len(trieNodes)
           /\ \A n \in 1..Len(trieNodes) :
                  /\ trieNodes'[n].failure = trieNodes[n].failure
                  /\ trieNodes'[n].output = trieNodes[n].output
           /\ \A n \in (Len(trieNodes) + 1)..Len(trieNodes') :
                  /\ trieNodes'[n].failure = root
                  /\ trieNodes'[n].output = root]_vars

\* a second keyword inserted without the pass created a node of depth 2 or
\* more, next to a node of the first keyword that keeps a failure link to a
\* node other than the root
C34_Witness ==
    /\ last.op = "addString"
    /\ ~last.addFailure
    /\ ~last.threw
    /\ Len(inserted) = 2
    /\ last.key = inserted[2]
    /\ \E n \in 2..(Len(inserted[1]) + 1) : trieNodes[n].failure # root
    /\ \E n \in (Len(inserted[1]) + 2)..Len(trieNodes) : trieNodes[n].depth >= 2

\* ---- C35 ------------------------------------------------------------------
\* C35 (the automaton only grows): in every step no node is removed, the
\* depth, symbol and parent of every node stay as they were, an id other than
\* -1 stays as it was, the keyword records stay a prefix of the new records,
\* and the depth of the failure link of every node does not decrease.
C35_OnlyGrows ==
    [][/\ Len(trieNodes') >= Len(trieNodes)
       /\ \A n \in 1..Len(trieNodes) :
              /\ trieNodes'[n].depth = trieNodes[n].depth
              /\ trieNodes'[n].c = trieNodes[n].c
              /\ trieNodes'[n].parent = trieNodes[n].parent
              /\ trieNodes[n].id # -1 => trieNodes'[n].id = trieNodes[n].id
              /\ trieNodes'[trieNodes'[n].failure].depth
                     >= trieNodes[trieNodes[n].failure].depth
       /\ Len(keywords') >= Len(keywords)
       /\ SubSeq(keywords', 1, Len(keywords)) = keywords]_vars

\* after a second link pass: the last node of a first keyword of three symbols
\* keeps its failure link of depth 1 while the failure link of its parent has
\* moved from the root to a node of the second keyword
C35_Witness ==
    /\ Len(inserted) = 2
    /\ Len(inserted[1]) = 3
    /\ last.op = "addString"
    /\ last.addFailure
    /\ ~last.threw
    /\ last.key = inserted[2]
    /\ trieNodes[4].depth = 3
    /\ trieNodes[trieNodes[4].failure].depth = 1
    /\ trieNodes[3].failure > 4

====
